---------------------------- MODULE Spec2Model ----------------------------
(***************************************************************************)
(* A model of src/sac.py (Soft Actor-Critic on Pendulum-v0): the replay    *)
(* buffer, the target computation, the three optimisation steps, the soft  *)
(* update and the training loop of main().                                 *)
(*                                                                         *)
(* Numbers.  Real-valued quantities (network parameters, critic values,    *)
(* rewards, targets, log-probabilities, gradients) are fixed-point numbers *)
(* in units of 1/Scale.  Observations, actions, noise draws and the        *)
(* continuation mask are whole numbers.  gamma, alpha and tau are kept as  *)
(* hundredths.  A quotient is rounded down: that rounding stands for the   *)
(* finite precision of the float32 tensors.  Only finite values occur.     *)
(*                                                                         *)
(* Networks.  An observation (a 3-vector in the code) is one whole number  *)
(* and a network's parameter set is a pair <<weight, bias>>; forward       *)
(* passes, gradients and the optimiser step are computed from these, with  *)
(* the shape of the code (relu, softplus, squashed action, clamped Huber   *)
(* gradient, minimum of the two critics) at that reduced size.             *)
(***************************************************************************)
EXTENDS Integers, Sequences, FiniteSets, TLC

(***************************************************************************)
(* Hyperparameters, src/sac.py lines 10-17.  The sizes that decide how     *)
(* large the state space is are scaled down; the code's value is given     *)
(* next to each.                                                           *)
(***************************************************************************)
Scale == 10^5

\* lr_pi = 0.0005
lr_pi == Scale \div 2000

\* lr_q = 0.001
lr_q == Scale \div 1000

\* alpha = 0.05, in hundredths
alpha == 5

\* gamma = 0.98, in hundredths
gamma == 98

\* batch_size = 32 in the code
batch_size == 1

\* buffer_limit = 50000 in the code
buffer_limit == 3

\* tau = 0.01, in hundredths: the value the module global has in main()
tau_default == 1

\* the denominator of the hundredths
Hundred == 10^2

\* range(10000) episodes in the code
n_episodes == 2

\* range(20) optimisation rounds after an episode in the code
n_rounds == 2

\* the warm-up threshold of line 149, 1000 in the code
warmup == 1

(***************************************************************************)
(* Bounds of the model.                                                    *)
(***************************************************************************)
\* puts and samples are tried on buffers built by at most MaxPuts puts
MaxPuts == 5

\* sample(n) is tried for n in 0 .. MaxSample
MaxSample == 4

\* observations are 0 .. MaxObs
MaxObs == 1

\* the environment ends an episode after at most MaxSteps steps
MaxSteps == 2

\* soft_update is tried on its own at most MaxCalls times in a row
MaxCalls == 2

VARIABLES
    tau,         \* the module global tau read by soft_update
    buffer,      \* ReplayBuffer.buffer (memory.buffer in main), oldest first
    puts,        \* history: every transition ever put, in order
    ret,         \* how the last ReplayBuffer call ended, and what it returned
    net,         \* the parameters of pi, q1, q2, q1_target, q2_target
    grad,        \* the .grad buffers of those parameters
    pc,          \* where main() stands; "api" when the functions are called alone
    n_epi,       \* main: the episode counter
    i,           \* main: the round counter of line 150
    s,           \* main: the current observation
    done,        \* main: the flag of the while loop
    steps,       \* the environment's own step count in the episode
    mini_batch,  \* main: the batch of the round
    target,      \* main: the target of the round
    calls,       \* history: the optimisation calls made since the last reset
    snap,        \* history: the target networks when the round's batch was drawn
    trained,     \* history: the round's train_q calls, their arguments and gradients
    pi_at        \* history: where the last train_pi evaluated pi and the critics
                 \* (the four histories start afresh at every reset)

vars == <<tau, buffer, puts, ret, net, grad, pc, n_epi, i, s, done, steps,
          mini_batch, target, calls, snap, trained, pi_at>>

(***************************************************************************)
(* Small helpers.                                                          *)
(***************************************************************************)
Min(a, b) == IF a <= b THEN a ELSE b

Max(a, b) == IF a >= b THEN a ELSE b

Injective(f) == \A j, k \in DOMAIN f : f[j] = f[k] => j = k

\* the last n elements of sequence q
LastN(q, n) == SubSeq(q, Len(q) - n + 1, Len(q))

(***************************************************************************)
(* ReplayBuffer, src/sac.py lines 19-44.                                   *)
(* A transition is the tuple <<s, a, r, s_prime, done>> of line 145.       *)
(***************************************************************************)
\* collections.deque(maxlen=buffer_limit): a new, empty deque
ReplayBuffer_init == <<>>

\* a deque made without maxlen
deque_append_unbounded(dq, x, maxlen) == Append(dq, x)

\* deque.append on a deque with maxlen: when full, the leftmost item goes
deque_append(dq, x, maxlen) ==
    IF Len(dq) >= maxlen
    THEN IF maxlen = 0 THEN <<>> ELSE Append(Tail(dq), x)
    ELSE Append(dq, x)

put(buf, transition) == deque_append(buf, transition, buffer_limit)

size(buf) == Len(buf)

\* random.choices in place of random.sample: drawn with replacement
random_choices(population, k) ==
    IF k > Len(population) \/ k < 0
    THEN {}
    ELSE { [j \in 1..k |-> population[f[j]]] :
             f \in [1..k -> 1..Len(population)] }

\* a sample that settles for what the population holds
random_sample_clamped(population, k) ==
    { [j \in 1..Len(f) |-> population[f[j]]] :
        f \in { g \in [1..(IF k > Len(population) THEN Len(population) ELSE k)
                          -> 1..Len(population)] : Injective(g) } }

\* random.sample(population, k): the lists it may return; none when it raises
random_sample(population, k) ==
    IF k > Len(population) \/ k < 0
    THEN {}
    ELSE { [j \in 1..k |-> population[f[j]]] :
             f \in { g \in [1..k -> 1..Len(population)] : Injective(g) } }

\* done_mask = 0.0 if done else 1.0
done_mask(d) == IF d THEN 0 ELSE 1

\* lines 28-41: the five parallel lists built from the drawn transitions
collate(mb) ==
    [ s       |-> [j \in 1..Len(mb) |-> mb[j][1]],
      a       |-> [j \in 1..Len(mb) |-> <<mb[j][2]>>],
      r       |-> [j \in 1..Len(mb) |-> <<mb[j][3]>>],
      s_prime |-> [j \in 1..Len(mb) |-> mb[j][4]],
      done    |-> [j \in 1..Len(mb) |-> <<done_mask(mb[j][5])>>] ]

NoBatch == [ s |-> <<>>, a |-> <<>>, r |-> <<>>, s_prime |-> <<>>, done |-> <<>> ]

\* sample(n): every way the call can end
sample(buf, n) ==
    IF random_sample(buf, n) = {}
    THEN { [outcome |-> "ValueError", batch |-> NoBatch] }
    ELSE { [outcome |-> "ok", batch |-> collate(mb)] : mb \in random_sample(buf, n) }

(***************************************************************************)
(* The networks, src/sac.py lines 46-85.                                   *)
(***************************************************************************)
NetNames == {"pi", "q1", "q2", "q1_target", "q2_target"}

\* the noise drawn at line 62, one draw per batch element
Noise == {-1, 1}

Sign(x) == IF x > 0 THEN 1 ELSE IF x < 0 THEN -1 ELSE 0

Clamp(x, lo, hi) == IF x < lo THEN lo ELSE IF x > hi THEN hi ELSE x

relu(x) == Max(x, 0)

\* F.softplus: positive everywhere, the identity for large arguments
softplus(x) == IF x >= 2 * Scale THEN x ELSE Max(1, (x + 2 * Scale) \div 2)

\* torch.tanh, with its saturation at -1 and 1
tanh(x) == Clamp(x, -Scale, Scale)

\* lines 55-64 for one observation x and one noise draw z: mu + std * noise
pi_pre(p, x, z) == p[1] * relu(x) + softplus(p[2]) * z

\* line 64: action = 2.0 * tanh(mu + std * noise), to the nearest whole number
pi_action(p, x, z) == (2 * tanh(pi_pre(p, x, z)) + Scale \div 2) \div Scale

\* line 63: the log-density of the standard normal at the noise
pi_log_prob(z) == 0 - ((z * z * Scale) \div 2) - (919 * Scale) \div 1000

\* PolicyNet.forward on a batch of observations xs with the noise draws zs
PolicyNet_forward(p, xs, zs) ==
    [ action   |-> [j \in 1..Len(xs) |-> <<pi_action(p, xs[j], zs[j])>>],
      log_prob |-> [j \in 1..Len(xs) |-> <<pi_log_prob(zs[j])>>] ]

\* QNet.forward for one observation x and one action a
QNet_forward(p, x, a) == relu(p[1] * (x + a)) + p[2]

\* the derivative of QNet.forward by each parameter, and by the action
QNet_dparam(p, x, a) == << IF p[1] * (x + a) > 0 THEN x + a ELSE 0, 1 >>

QNet_daction(p, x, a) == IF p[1] * (x + a) > 0 THEN p[1] ELSE 0

\* the sum of the numbers of a sequence
RECURSIVE SumSeq(_)
SumSeq(q) == IF q = <<>> THEN 0 ELSE Head(q) + SumSeq(Tail(q))

\* the mean over the batch, as loss.mean().backward() leaves it in .grad
Mean(q) == IF q = <<>> THEN 0 ELSE SumSeq(q) \div Len(q)

\* optimizer.step(): each parameter moves by the learning rate against the
\* sign of its gradient (Adam's moment estimates are not kept)
optimizer_step(p, g, lr) == [k \in DOMAIN p |-> p[k] - lr * Sign(g[k])]

(***************************************************************************)
(* calc_target, src/sac.py lines 87-98.  qa and qb are the parameters of   *)
(* the two critics passed in, zs the noise pi draws.                       *)
(***************************************************************************)
\* line 92 and 110: entropy = -alpha * log_prob
entropy_of(log_prob) == 0 - ((alpha * log_prob) \div Hundred)

\* lines 93-95 and 112-114: the smaller of the two critics' values
min_q_of(qa, qb, x, a) == Min(QNet_forward(qa, x, a), QNet_forward(qb, x, a))

\* the target without the continuation mask
target_of_unmasked(r, mask, min_q, entropy) ==
    r + (gamma * (min_q + entropy)) \div Hundred

\* line 96 for one batch element
target_of(r, mask, min_q, entropy) ==
    r + (gamma * mask * (min_q + entropy)) \div Hundred

calc_target(p, qa, qb, mb, zs) ==
    LET out == PolicyNet_forward(p, mb.s_prime, zs)
    IN  [j \in 1..Len(mb.s) |->
           << target_of(mb.r[j][1], mb.done[j][1],
                        min_q_of(qa, qb, mb.s_prime[j], out.action[j][1]),
                        entropy_of(out.log_prob[j][1])) >>]

(***************************************************************************)
(* train_q, src/sac.py lines 100-105: the critic's parameters and .grad    *)
(* after the call.                                                         *)
(***************************************************************************)
\* the derivative of F.smooth_l1_loss by the prediction
smooth_l1_grad(pred, tgt) == Clamp(pred - tgt, -Scale, Scale)

train_q_grad(q, tgt, mb) ==
    [k \in 1..2 |->
        Mean([j \in 1..Len(mb.s) |->
                smooth_l1_grad(QNet_forward(q, mb.s[j], mb.a[j][1]), tgt[j][1])
                  * QNet_dparam(q, mb.s[j], mb.a[j][1])[k]])]

train_q(q, tgt, mb) ==
    LET g == train_q_grad(q, tgt, mb)
    IN  [param |-> optimizer_step(q, g, lr_q), grad |-> g]

(***************************************************************************)
(* soft_update, src/sac.py lines 121-123: the target's parameters after    *)
(* the call.                                                               *)
(***************************************************************************)
\* the two weights exchanged
soft_update_swapped(p, p_target) ==
    [k \in DOMAIN p_target |->
        (p_target[k] * tau + p[k] * (Hundred - tau)) \div Hundred]

soft_update(p, p_target) ==
    [k \in DOMAIN p_target |->
        (p_target[k] * (Hundred - tau) + p[k] * tau) \div Hundred]

(***************************************************************************)
(* train_pi, src/sac.py lines 107-119: the policy's parameters and the     *)
(* .grad buffers of the policy and of the two critics after the call.      *)
(* ga and gb are the critics' .grad buffers before it.                     *)
(***************************************************************************)
\* the slope of tanh and of softplus: 1 where they rise, 0 where they are flat
tanh_d(x) == IF -Scale < x /\ x < Scale THEN 1 ELSE 0

softplus_d(x) == IF x > -2 * Scale THEN 1 ELSE 0

\* line 109: the observations pi is evaluated at
train_pi_input(mb) == mb.s_prime

\* line 112: the observations the two critics are evaluated at
train_pi_q_input(mb) == mb.s

\* line 114: whether torch.min takes the first critic's value for element j
first_is_min(qa, qb, x, a) == QNet_forward(qa, x, a) <= QNet_forward(qb, x, a)

\* the derivative of pi's action by each of pi's parameters
pi_dparam(p, x, z) ==
    << 2 * tanh_d(pi_pre(p, x, z)) * relu(x),
       2 * tanh_d(pi_pre(p, x, z)) * softplus_d(p[2]) * z >>

train_pi_grads(p, qa, qb, ga, gb, mb, zs) ==
    LET xin == train_pi_input(mb)
        xq  == train_pi_q_input(mb)
        out == PolicyNet_forward(p, xin, zs)
        ap(j) == out.action[j][1]
        qm(j) == IF first_is_min(qa, qb, xq[j], ap(j)) THEN qa ELSE qb
        n   == Len(mb.s)
    IN  [ pi |-> [k \in 1..2 |->
                    Mean([j \in 1..n |->
                            (0 - QNet_daction(qm(j), xq[j], ap(j)))
                              * pi_dparam(p, xin[j], zs[j])[k]])],
          qa |-> [k \in 1..2 |->
                    ga[k] + Mean([j \in 1..n |->
                                    IF first_is_min(qa, qb, xq[j], ap(j))
                                    THEN (0 - Scale) * QNet_dparam(qa, xq[j], ap(j))[k]
                                    ELSE 0])],
          qb |-> [k \in 1..2 |->
                    gb[k] + Mean([j \in 1..n |->
                                    IF first_is_min(qa, qb, xq[j], ap(j))
                                    THEN 0
                                    ELSE (0 - Scale) * QNet_dparam(qb, xq[j], ap(j))[k]])],
          a_prime |-> out.action ]

\* a step of the critics' optimizers as well
train_pi_steps_critics(params, grads, mb, zs) ==
    LET g == train_pi_grads(params["pi"], params["q1"], params["q2"],
                            grads["q1"], grads["q2"], mb, zs)
    IN  [ net  |-> [params EXCEPT !["pi"] = optimizer_step(params["pi"], g.pi, lr_pi),
                                  !["q1"] = optimizer_step(params["q1"], g.qa, lr_q),
                                  !["q2"] = optimizer_step(params["q2"], g.qb, lr_q)],
          grad |-> [grads EXCEPT !["pi"] = g.pi, !["q1"] = g.qa, !["q2"] = g.qb],
          a_prime |-> g.a_prime ]

\* lines 117-119: only pi's optimizer steps
train_pi(params, grads, mb, zs) ==
    LET g == train_pi_grads(params["pi"], params["q1"], params["q2"],
                            grads["q1"], grads["q2"], mb, zs)
    IN  [ net  |-> [params EXCEPT !["pi"] = optimizer_step(params["pi"], g.pi, lr_pi)],
          grad |-> [grads EXCEPT !["pi"] = g.pi, !["q1"] = g.qa, !["q2"] = g.qb],
          a_prime |-> g.a_prime ]

(***************************************************************************)
(* The environment, used through reset() and step(action) only.  Its       *)
(* dynamics and reward are functions of the observation and the action, as *)
(* Pendulum's are; where an episode starts and when it ends (after at most *)
(* MaxSteps steps) are the environment's choice.                           *)
(***************************************************************************)
Obs == 0..MaxObs

\* the environment's next observation
env_next(x, a) == (x + a + 1) % (MaxObs + 1)

\* the environment's reward, a whole number
env_reward(x, a) == 0 - 10 * x

\* line 145: r/10.0, as a fixed-point number
scaled_reward(r) == (r * Scale) \div 10

(***************************************************************************)
(* The state after construction.                                           *)
(***************************************************************************)
NoRet == [op |-> "none", n |-> 0, outcome |-> "none", batch |-> NoBatch]

NoEval == [p |-> <<>>, pi_in |-> <<>>, q_in |-> <<>>, a_prime |-> <<>>]

ZeroGrad == [name \in NetNames |-> <<0, 0>>]

\* the parameters a freshly constructed critic may have
QInit == { <<Scale, 0>>, <<Scale \div 2, Scale \div 4>> }

\* the parameters of the freshly constructed policy
PiInit == <<Scale \div 2, 0 - Scale>>

\* everything main() owns, before main() runs
MainIdle ==
    /\ n_epi = 0 /\ i = 0 /\ s = 0 /\ done = FALSE /\ steps = 0
    /\ mini_batch = NoBatch /\ target = <<>>
    /\ calls = <<>> /\ snap = <<>> /\ trained = <<>> /\ pi_at = NoEval

\* lines 127-133, before the two load_state_dict calls
Init ==
    /\ tau = tau_default
    /\ buffer = ReplayBuffer_init
    /\ puts = <<>>
    /\ ret = NoRet
    /\ \E a, b \in QInit :
         /\ a # b
         /\ net = [name \in NetNames |->
                    CASE name = "pi" -> PiInit
                      [] name = "q1" -> a
                      [] name = "q2" -> b
                      [] name = "q1_target" -> b
                      [] name = "q2_target" -> a]
    /\ grad = ZeroGrad
    /\ pc = "load"
    /\ MainIdle

(***************************************************************************)
(* main(), src/sac.py lines 125-163, one action per statement of the loop. *)
(***************************************************************************)
\* the network each call of lines 152-157 is handed
calc_target_critics == <<"q1_target", "q2_target">>

\* the target critic handed to train_q
train_q_first_target == "q1_target"

train_q_first == "q1"

train_q_second == "q2"

\* lines 130-131: load_state_dict copies the online critics into the targets
load_targets(params) ==
    [params EXCEPT !["q1_target"] = params["q1"], !["q2_target"] = params["q2"]]

LoadTargets ==
    /\ pc = "load"
    /\ net' = load_targets(net)
    /\ pc' = "reset"
    /\ UNCHANGED <<tau, buffer, puts, ret, grad, n_epi, i, s, done, steps,
                   mini_batch, target, calls, snap, trained, pi_at>>

\* lines 139-140, and the first test of line 142 (done is False)
Reset ==
    /\ pc = "reset"
    /\ \E x \in Obs : s' = x
    /\ done' = FALSE
    /\ steps' = 0
    /\ calls' = <<>> /\ snap' = <<>> /\ trained' = <<>> /\ pi_at' = NoEval
    /\ pc' = "step"
    /\ UNCHANGED <<tau, buffer, puts, ret, net, grad, n_epi, i,
                   mini_batch, target>>

\* lines 143-147 and the next test of line 142
Step ==
    /\ pc = "step"
    /\ \E z \in Noise, d \in BOOLEAN :
         LET a == pi_action(net["pi"], s, z)
             r == env_reward(s, a)
             x2 == env_next(s, a)
         IN  /\ steps + 1 >= MaxSteps => d
             /\ buffer' = put(buffer, <<s, a, scaled_reward(r), x2, d>>)
             /\ s' = x2
             /\ done' = d
             /\ pc' = IF d THEN "warmup" ELSE "step"
    /\ steps' = steps + 1
    /\ UNCHANGED <<tau, puts, ret, net, grad, n_epi, i,
                   mini_batch, target, calls, snap, trained, pi_at>>

\* the threshold included
warmed_up_inclusive(buf) == size(buf) >= warmup

\* line 149: memory.size()>1000
warmed_up(buf) == size(buf) > warmup

\* line 149, and line 150 when the rounds start
WarmUp ==
    /\ pc = "warmup"
    /\ IF warmed_up(buffer) /\ n_rounds > 0
       THEN pc' = "sample" /\ i' = 0
       ELSE pc' = "print" /\ i' = i
    /\ UNCHANGED <<tau, buffer, puts, ret, net, grad, n_epi, s, done, steps,
                   mini_batch, target, calls, snap, trained, pi_at>>

\* line 151
Sample ==
    /\ pc = "sample"
    /\ \E res \in sample(buffer, batch_size) :
         /\ ret' = [op |-> "sample", n |-> batch_size,
                    outcome |-> res.outcome, batch |-> res.batch]
         /\ IF res.outcome = "ok"
            THEN mini_batch' = res.batch /\ pc' = "calc_target"
            ELSE mini_batch' = mini_batch /\ pc' = "raised"
    /\ calls' = Append(calls, <<"sample">>)
    /\ snap' = <<net["q1_target"], net["q2_target"]>>
    /\ trained' = <<>>
    /\ UNCHANGED <<tau, buffer, puts, net, grad, n_epi, i, s, done, steps,
                   target, pi_at>>

\* line 152
CalcTarget ==
    /\ pc = "calc_target"
    /\ \E zs \in [1..Len(mini_batch.s) -> Noise] :
         target' = calc_target(net["pi"], net[calc_target_critics[1]],
                               net[calc_target_critics[2]], mini_batch, zs)
    /\ calls' = Append(calls, <<"calc_target">>)
    /\ pc' = "train_q1"
    /\ UNCHANGED <<tau, buffer, puts, ret, net, grad, n_epi, i, s, done, steps,
                   mini_batch, snap, trained, pi_at>>

\* one call train_q(q, target, mini_batch) of main, q being the network name
MainTrainQ(name) ==
    LET res == train_q(net[name], target, mini_batch)
    IN  /\ net' = [net EXCEPT ![name] = res.param]
        /\ grad' = [grad EXCEPT ![name] = res.grad]
        /\ trained' = Append(trained, [net |-> name, target |-> target,
                                       batch |-> mini_batch, grad |-> res.grad])
        /\ calls' = Append(calls, <<"train_q", name>>)

\* a soft update of the first target right after the first critic's step
TrainQ1_then_soft_update ==
    /\ pc = "train_q1"
    /\ LET res == train_q(net[train_q_first], target, mini_batch)
           stepped == [net EXCEPT ![train_q_first] = res.param]
       IN  /\ net' = [stepped EXCEPT !["q1_target"] =
                        soft_update(stepped["q1"], stepped["q1_target"])]
           /\ grad' = [grad EXCEPT ![train_q_first] = res.grad]
           /\ trained' = Append(trained, [net |-> train_q_first, target |-> target,
                                          batch |-> mini_batch, grad |-> res.grad])
    /\ calls' = Append(calls, <<"train_q", train_q_first>>)
    /\ pc' = "train_q2"
    /\ UNCHANGED <<tau, buffer, puts, ret, n_epi, i, s, done, steps,
                   mini_batch, target, snap, pi_at>>

\* line 153
TrainQ1 ==
    /\ pc = "train_q1"
    /\ MainTrainQ(train_q_first)
    /\ pc' = "train_q2"
    /\ UNCHANGED <<tau, buffer, puts, ret, n_epi, i, s, done, steps,
                   mini_batch, target, snap, pi_at>>

\* line 154
TrainQ2 ==
    /\ pc = "train_q2"
    /\ MainTrainQ(train_q_second)
    /\ pc' = "train_pi"
    /\ UNCHANGED <<tau, buffer, puts, ret, n_epi, i, s, done, steps,
                   mini_batch, target, snap, pi_at>>

\* line 155
TrainPi ==
    /\ pc = "train_pi"
    /\ \E zs \in [1..Len(mini_batch.s) -> Noise] :
         LET res == train_pi(net, grad, mini_batch, zs)
         IN  /\ net' = res.net
             /\ grad' = res.grad
             /\ pi_at' = [p |-> net["pi"],
                          pi_in |-> train_pi_input(mini_batch),
                          q_in |-> train_pi_q_input(mini_batch),
                          a_prime |-> res.a_prime]
    /\ calls' = Append(calls, <<"train_pi">>)
    /\ pc' = "soft_update1"
    /\ UNCHANGED <<tau, buffer, puts, ret, n_epi, i, s, done, steps,
                   mini_batch, target, snap, trained>>

\* one call soft_update(net, net_target), by the networks' names
CallSoftUpdate(name, name_target) ==
    /\ net' = [net EXCEPT ![name_target] = soft_update(net[name], net[name_target])]
    /\ calls' = Append(calls, <<"soft_update", name, name_target>>)

\* line 156
SoftUpdate1 ==
    /\ pc = "soft_update1"
    /\ CallSoftUpdate("q1", "q1_target")
    /\ pc' = "soft_update2"
    /\ UNCHANGED <<tau, buffer, puts, ret, grad, n_epi, i, s, done, steps,
                   mini_batch, target, snap, trained, pi_at>>

\* line 157, and the next turn of line 150
SoftUpdate2 ==
    /\ pc = "soft_update2"
    /\ CallSoftUpdate("q2", "q2_target")
    /\ IF i + 1 < n_rounds
       THEN pc' = "sample" /\ i' = i + 1
       ELSE pc' = "print" /\ i' = i
    /\ UNCHANGED <<tau, buffer, puts, ret, grad, n_epi, s, done, steps,
                   mini_batch, target, snap, trained, pi_at>>

\* lines 159-161 (the printed score is not kept), and the next turn of line 138
NextEpisode ==
    /\ pc = "print"
    /\ IF n_epi + 1 < n_episodes
       THEN pc' = "reset" /\ n_epi' = n_epi + 1
       ELSE pc' = "close" /\ n_epi' = n_epi
    /\ UNCHANGED <<tau, buffer, puts, ret, net, grad, i, s, done, steps,
                   mini_batch, target, calls, snap, trained, pi_at>>

\* line 163
Close ==
    /\ pc = "close"
    /\ pc' = "done"
    /\ UNCHANGED <<tau, buffer, puts, ret, net, grad, n_epi, i, s, done, steps,
                   mini_batch, target, calls, snap, trained, pi_at>>

Next ==
    \/ LoadTargets
    \/ Reset
    \/ Step
    \/ WarmUp
    \/ Sample
    \/ CalcTarget
    \/ TrainQ1
    \/ TrainQ2
    \/ TrainPi
    \/ SoftUpdate1
    \/ SoftUpdate2
    \/ NextEpisode
    \/ Close

Spec == Init /\ [][Next]_vars

(***************************************************************************)
(* The ReplayBuffer used on its own: any puts and samples, in any order.   *)
(***************************************************************************)
\* the transitions put: two observations, terminal or not
ApiTransitions ==
    { tr \in { <<x, 1, scaled_reward(env_reward(x, 1)), 1 - x, d>> :
                 x \in {0, 1}, d \in BOOLEAN } : tr[1] = 1 \/ ~tr[5] }

ApiNets ==
    [name \in NetNames |->
       CASE name = "pi" -> PiInit
         [] name \in {"q1", "q1_target"} -> <<Scale, 0>>
         [] OTHER -> <<Scale \div 2, Scale \div 4>>]

InitBuffer ==
    /\ tau = tau_default
    /\ buffer = ReplayBuffer_init
    /\ puts = <<>>
    /\ ret = NoRet
    /\ net = ApiNets
    /\ grad = ZeroGrad
    /\ pc = "api"
    /\ MainIdle

\* memory.put(transition)
ApiPut(transition) ==
    /\ pc = "api"
    /\ Len(puts) < MaxPuts
    /\ buffer' = put(buffer, transition)
    /\ puts' = Append(puts, transition)
    /\ ret' = [op |-> "put", n |-> 0, outcome |-> "ok", batch |-> NoBatch]
    /\ UNCHANGED <<tau, net, grad, pc, n_epi, i, s, done, steps,
                   mini_batch, target, calls, snap, trained, pi_at>>

\* memory.sample(n)
ApiSample(n) ==
    /\ pc = "api"
    /\ \E res \in sample(buffer, n) :
         ret' = [op |-> "sample", n |-> n,
                 outcome |-> res.outcome, batch |-> res.batch]
    /\ UNCHANGED <<tau, buffer, puts, net, grad, pc, n_epi, i, s, done, steps,
                   mini_batch, target, calls, snap, trained, pi_at>>

NextBuffer ==
    \/ \E transition \in ApiTransitions : ApiPut(transition)
    \/ \E n \in 0..MaxSample : ApiSample(n)

SpecBuffer == InitBuffer /\ [][NextBuffer]_vars

(***************************************************************************)
(* soft_update used on its own: any parameters, and tau set to its value   *)
(* in the code or to one of the two ends of its range.                     *)
(***************************************************************************)
TauValues == {0, tau_default, Hundred}

SoftValues == {0 - Scale, 0, 57, Scale + 50}

InitSoft ==
    /\ tau \in TauValues
    /\ buffer = ReplayBuffer_init
    /\ puts = <<>>
    /\ ret = NoRet
    /\ \E a, b, c, d \in SoftValues :
         net = [name \in NetNames |->
                  CASE name = "pi" -> PiInit
                    [] name = "q1" -> <<a, b>>
                    [] name = "q2" -> <<b, a>>
                    [] name = "q1_target" -> <<c, d>>
                    [] name = "q2_target" -> <<d, c>>]
    /\ grad = ZeroGrad
    /\ pc = "api"
    /\ MainIdle

\* soft_update(q1, q1_target) or soft_update(q2, q2_target)
ApiSoftUpdate(name, name_target) ==
    /\ pc = "api"
    /\ Len(calls) < MaxCalls
    /\ CallSoftUpdate(name, name_target)
    /\ UNCHANGED <<tau, buffer, puts, ret, grad, pc, n_epi, i, s, done, steps,
                   mini_batch, target, snap, trained, pi_at>>

NextSoft ==
    \/ ApiSoftUpdate("q1", "q1_target")
    \/ ApiSoftUpdate("q2", "q2_target")

SpecSoft == InitSoft /\ [][NextSoft]_vars

(***************************************************************************)
(* The claims.                                                             *)
(***************************************************************************)
\* row j of batch b is transition tr as sample lays it out
RowIs(b, j, tr) ==
    /\ b.s[j] = tr[1]
    /\ b.a[j] = <<tr[2]>>
    /\ b.r[j] = <<tr[3]>>
    /\ b.s_prime[j] = tr[4]
    /\ b.done[j] = <<IF tr[5] THEN 0 ELSE 1>>

\* batch b has exactly n rows in each of its five lists
HasRows(b, n) ==
    /\ Len(b.s) = n /\ Len(b.a) = n /\ Len(b.r) = n
    /\ Len(b.s_prime) = n /\ Len(b.done) = n

\* C1: after any sequence of puts on an empty buffer, size() is at most the
\* capacity and the buffer holds the last min(k, capacity) of the k
\* transitions put, oldest first: a put on a full buffer drops the oldest.
C1_BoundedFifo ==
    /\ size(buffer) <= buffer_limit
    /\ buffer = LastN(puts, Min(Len(puts), buffer_limit))

C1_Witness ==
    /\ Len(puts) >= buffer_limit + 2
    /\ size(buffer) = buffer_limit
    /\ buffer[1] # puts[1]
    /\ buffer[1] # puts[2]

\* C2: sample(n) with 0 <= n <= size() ends normally with five lists of n
\* rows each, row j being the transition at buffer position f[j] for an
\* injective f, and it leaves the buffer as it was.
C2_SampleDistinctRows ==
    [][ (ret'.op = "sample" /\ ret'.n <= size(buffer)) =>
          /\ ret'.outcome = "ok"
          /\ HasRows(ret'.batch, ret'.n)
          /\ \E f \in [1..ret'.n -> 1..size(buffer)] :
               /\ Injective(f)
               /\ \A j \in 1..ret'.n : RowIs(ret'.batch, j, buffer[f[j]])
          /\ buffer' = buffer ]_vars

C2_Witness ==
    /\ ret.op = "sample" /\ ret.outcome = "ok"
    /\ ret.n = 2 /\ size(buffer) = 3
    /\ Len(ret.batch.s) = 2
    /\ ret.batch.done[1] # ret.batch.done[2]

\* C7: sample(n) with n > size() ends in an error, returns no batch and
\* leaves the buffer as it was.
C7_SampleTooManyFails ==
    [][ (ret'.op = "sample" /\ ret'.n > size(buffer)) =>
          /\ ret'.outcome = "ValueError"
          /\ ret'.batch = NoBatch
          /\ buffer' = buffer
          /\ size(buffer') = size(buffer) ]_vars

C7_Witness ==
    /\ ret.op = "sample" /\ ret.outcome = "ValueError"
    /\ ret.n = size(buffer) + 1
    /\ size(buffer) >= 2

\* the future term min_q + entropy of the round's batch element j, were the
\* noise drawn z
FutureTerm(j, z) ==
    min_q_of(net["q1_target"], net["q2_target"], mini_batch.s_prime[j],
             pi_action(net["pi"], mini_batch.s_prime[j], z))
      + entropy_of(pi_log_prob(z))

\* C3: once calc_target has run, every row of the batch is a stored
\* transition whose mask is 0 when it is terminal and 1 when it is not, and
\* the target of a terminal row is exactly the row's reward.
C3_TerminalTargetIsReward ==
    pc = "train_q1" =>
      /\ HasRows(mini_batch, batch_size) /\ Len(target) = batch_size
      /\ \A j \in 1..batch_size :
           \E k \in 1..size(buffer) :
             /\ RowIs(mini_batch, j, buffer[k])
             /\ mini_batch.done[j][1] = (IF buffer[k][5] THEN 0 ELSE 1)
             /\ buffer[k][5] => target[j] = <<buffer[k][3]>>

C3_Witness ==
    /\ pc = "train_q1"
    /\ \E j \in 1..batch_size :
         /\ mini_batch.done[j] = <<0>>
         /\ mini_batch.r[j][1] # 0
         /\ target[j] = mini_batch.r[j]
         /\ \A z \in Noise : FutureTerm(j, z) # 0

\* C4: one soft_update(net, net_target) sets each target parameter to
\* old_target * (1 - tau) + online * tau, to the precision of the numbers:
\* the online value itself when tau = 1.0, the old target when tau = 0.0,
\* 0.99 * old_target + 0.01 * online when tau = 0.01; the online network and
\* every other network keep their parameters.
C4_SoftUpdateBlend ==
    [][ calls' # calls =>
          LET c == calls'[Len(calls')]
              old == net[c[3]]
              online == net[c[2]]
              new == net'[c[3]]
          IN  /\ c[1] = "soft_update"
              /\ \A k \in 1..2 :
                   LET exact == old[k] * (Hundred - tau) + online[k] * tau
                   IN  /\ Hundred * new[k] <= exact
                       /\ exact < Hundred * new[k] + Hundred
                       /\ exact % Hundred = 0 => Hundred * new[k] = exact
                       /\ tau = Hundred => new[k] = online[k]
                       /\ tau = 0 => new[k] = old[k]
                       /\ tau = tau_default => Hundred * new[k] <= 99 * old[k] + online[k]
                       /\ tau = tau_default => 99 * old[k] + online[k] < Hundred * new[k] + Hundred
              /\ \A name \in NetNames \ {c[3]} : net'[name] = net[name] ]_vars

C4_Witness ==
    /\ tau = 1
    /\ calls = << <<"soft_update", "q1", "q1_target">> >>
    /\ net["q1"] = <<0, 57>>
    /\ net["q1_target"] = <<0 - (99 * Scale) \div 100, (99 * Scale) \div 100 + 50>>

Targets == {"q1_target", "q2_target"}

\* C5: the targets leave the two load_state_dict calls as exact copies of q1
\* and q2; from then on a target's parameters change only in a soft_update
\* of that target, no train_q is ever handed a target network, and a target
\* never holds a gradient.
C5_TargetsOnlySoftUpdated ==
    [][ /\ pc = "load" => (net'["q1_target"] = net'["q1"] /\ net'["q2_target"] = net'["q2"])
        /\ \A tn \in Targets :
             (pc # "load" /\ net'[tn] # net[tn]) =>
                /\ Len(calls') = Len(calls) + 1
                /\ calls'[Len(calls')][1] = "soft_update"
                /\ calls'[Len(calls')][3] = tn
        /\ \A k \in 1..Len(calls') :
             calls'[k][1] = "train_q" => calls'[k][2] \in {"q1", "q2"}
        /\ \A tn \in Targets : grad'[tn] = <<0, 0>> ]_vars

C5_Witness ==
    /\ pc = "print"
    /\ net["q1_target"] # net["q1"]
    /\ net["q1_target"] \notin QInit
    /\ net["q2_target"] \notin QInit
    /\ grad["q1"] # <<0, 0>>

\* C6: in a round both critic updates are handed the one target and the one
\* batch of that round, the target being calc_target's value on that batch
\* and the target networks as they were when the batch was drawn; the
\* target networks stay as they were from the draw until the second critic
\* update has finished.
C6_SameTargetSameSnapshot ==
    /\ pc \in {"calc_target", "train_q1", "train_q2", "train_pi"} =>
         /\ snap = <<net["q1_target"], net["q2_target"]>>
         /\ mini_batch = ret.batch
    /\ pc = "train_pi" =>
         /\ Len(trained) = 2
         /\ trained[1].net = "q1" /\ trained[2].net = "q2"
         /\ trained[1].target = target /\ trained[2].target = target
         /\ trained[1].batch = mini_batch /\ trained[2].batch = mini_batch
         /\ \E zs \in [1..Len(mini_batch.s) -> Noise] :
              target = calc_target(net["pi"], snap[1], snap[2], mini_batch, zs)

C6_Witness ==
    /\ pc = "train_pi"
    /\ i >= 1
    /\ Len(trained) = 2
    /\ net["q1"] # snap[1]
    /\ net["q2"] # snap[2]
    /\ grad["q1"] # <<0, 0>>

\* C8: train_pi evaluates the policy at s, the current observations of the
\* batch, so that the action a' of its loss is one the policy gives at s,
\* and it evaluates the two online critics at (s, a').
C8_PolicyEvaluatedAtS ==
    pc = "soft_update1" =>
      /\ pi_at.pi_in = mini_batch.s
      /\ pi_at.q_in = mini_batch.s
      /\ \E zs \in [1..Len(mini_batch.s) -> Noise] :
           pi_at.a_prime = PolicyNet_forward(pi_at.p, mini_batch.s, zs).action

\* the calls of one round, in the order of lines 151-157
RoundCalls ==
    << <<"sample">>, <<"calc_target">>, <<"train_q", "q1">>, <<"train_q", "q2">>,
       <<"train_pi">>, <<"soft_update", "q1", "q1_target">>,
       <<"soft_update", "q2", "q2_target">> >>

RECURSIVE Rounds(_)
Rounds(n) == IF n = 0 THEN <<>> ELSE Rounds(n - 1) \o RoundCalls

\* how many calls of the round have been made when main stands at p
CallsMadeAt(p) ==
    CASE p = "sample" -> 0
      [] p = "calc_target" -> 1
      [] p = "train_q1" -> 2
      [] p = "train_q2" -> 3
      [] p = "train_pi" -> 4
      [] p = "soft_update1" -> 5
      [] p = "soft_update2" -> 6

RoundPcs == {"sample", "calc_target", "train_q1", "train_q2", "train_pi",
             "soft_update1", "soft_update2"}

\* C9: no optimisation call is made while an episode runs; when the episode
\* is over, n_rounds rounds have run if size() > warmup and none otherwise;
\* each round makes its calls in the order sample, calc_target, train_q(q1),
\* train_q(q2), train_pi, soft_update(q1, q1_target), soft_update(q2,
\* q2_target); and sample is only called with batch_size <= size().
C9_RoundsBetweenEpisodes ==
    /\ pc \in {"step", "warmup"} => calls = <<>>
    /\ pc \in RoundPcs =>
         /\ i < n_rounds
         /\ calls = Rounds(i) \o SubSeq(RoundCalls, 1, CallsMadeAt(pc))
         /\ size(buffer) > warmup
    /\ pc = "print" =>
         calls = IF size(buffer) > warmup THEN Rounds(n_rounds) ELSE <<>>
    /\ pc = "sample" => batch_size <= size(buffer)
    /\ pc # "raised"
    /\ ret.op = "sample" => ret.outcome = "ok"

C9_Witness ==
    /\ pc = "print"
    /\ n_epi >= 1
    /\ size(buffer) > warmup
    /\ Len(calls) = 7 * n_rounds
    /\ n_rounds >= 2

\* C10: train_pi changes the parameters of pi only: q1, q2, q1_target and
\* q2_target have the parameters after the call that they had before it.
C10_TrainPiLeavesCritics ==
    [][ pc = "train_pi" =>
          \A name \in NetNames \ {"pi"} : net'[name] = net[name] ]_vars

C10_Witness ==
    /\ pc = "soft_update1"
    /\ net["pi"] # PiInit
    /\ \E k \in 1..Len(trained) : grad[trained[k].net] # trained[k].grad

====
